---- MODULE Spec2Model ----
(***************************************************************************)
(* A model of thecppzoo/metatools: the index-pack generator (Indices.h),   *)
(* the type-at-index lookup (TypeAtIndex.h, PackIndexer.h), the two        *)
(* dispatchers of Instantiator.h (array jump table and recursive switch)   *)
(* and the demo dispatcher of test/instantiator_demo.cpp.                  *)
(*                                                                         *)
(* Template instantiation is modelled by operators that compute what the   *)
(* compiler computes; calls of execute are actions.  Where the C++ has     *)
(* undefined behaviour the model takes every outcome a build was seen or   *)
(* can be expected to produce.                                             *)
(***************************************************************************)
EXTENDS Integers, Sequences, FiniteSets, TLC

\* Instantiator.h: the template arguments, the jump table, the caller's
\* arguments and what the caller saw of its last call of each strategy.
VARIABLES Size, voidReturn, built, jumpTable, firstTable, index, arguments, arr, sw

\* TypeAtIndex.h, PackIndexer.h: the template arguments and the types the
\* instantiations name.
VARIABLES Ts, Index, type, Internal

\* Indices.h: the count asked for, the arguments of the Indices_impl being
\* instantiated, the IndexPack reached (<<>>: none yet, <<p>>: the pack p),
\* and the state of the alias Indices.
VARIABLES N, count, indices, pack, alias

\* test/instantiator_demo.cpp: the counter, the calls of unimplemented(),
\* whether the process is still running, and the calls made so far by the
\* kind of their index.
VARIABLES tradesSeen, unimplementedCalls, running,
          tradeCalls, quoteCalls, otherCalls, outOfRangeCalls

dispatchVars == <<Size, voidReturn, built, jumpTable, firstTable, index, arguments, arr, sw>>

typeVars == <<Ts, Index, type, Internal>>

indexVars == <<N, count, indices, pack, alias>>

demoVars == <<tradesSeen, unimplementedCalls, running,
              tradeCalls, quoteCalls, otherCalls, outOfRangeCalls>>

vars == <<dispatchVars, typeVars, indexVars, demoVars>>

(***************************************************************************)
(* Bounds of the model.                                                    *)
(***************************************************************************)
\* Size ranges over 1..MaxSize.
MaxSize == 3
\* The single argument of the signature Return(Args...) ranges over 0..MaxArg.
MaxArg == 1
\* Width of std::size_t in the model (64 on the usual targets): all that
\* matters is that a negative int converts to a value >= Size.
SizeTBits == 4

Args == 0 .. MaxArg

SizeTModulus == 2 ^ SizeTBits

\* The int indices a caller passes: one below the range, the range, two above.
IntIndices == (0 - 1) .. (MaxSize + 1)

(***************************************************************************)
(* Instantiator.h                                                          *)
(***************************************************************************)

\* The conversion of the caller's index to the std::size_t parameter.
ToSizeT(i) == i % SizeTModulus

\* UserTemplate<k>::execute(arg) for a user template whose specialisations
\* are told apart by what they return.
UserTemplate(k, arg) == k * (MaxArg + 1) + arg

\* A value no specialisation 0 .. MaxSize-1 returns.
GarbageValue == UserTemplate(MaxSize, 0)

\* The outcome of one call: the handlers invoked, in order, each with the
\* argument it got; how the call ended; the value returned (<<>>: none).
Outcome(inv, status, ret) == [inv |-> inv, status |-> status, ret |-> ret]

\* The call UserTemplate<k>::execute(std::forward<Args>(arguments)...).
Invoke(k, arg, voidR) ==
    Outcome(<< <<k, arg>> >>, "returned",
            IF voidR THEN <<>> ELSE <<UserTemplate(k, arg)>>)

\* std::make_index_sequence<Size>: the indices 0, 1, ..., Size-1.
make_index_sequence(size) == [k \in 1 .. size |-> k - 1]

\* A table in the reverse order of the indices.
makeJumpTable_Reversed(Indices) ==
    [n \in DOMAIN Indices |-> Indices[Len(Indices) + 1 - n]]

\* Instantiator::makeJumpTable(std::index_sequence<Indices...>):
\* {{ UserTemplate<Indices>::execute... }}.  Entry k of the std::array is
\* element k+1 of the sequence; a handler is named by its index.
makeJumpTable(Indices) == [n \in DOMAIN Indices |-> Indices[n]]

\* jumpTable[index] with index >= Size: std::array::operator[] does not
\* check, so the read is out of bounds and the call through the word read is
\* undefined.  Seen with g++ 12: a segmentation fault (index = Size) and a
\* return of garbage with no handler run (index = (size_t)-1); the word may
\* also be the address of some handler.
OutOfBoundsCall(size, voidR) ==
    {Outcome(<<>>, "crashed", <<>>)}
    \cup {Outcome(<<>>, "returned", IF voidR THEN <<>> ELSE <<GarbageValue>>)}
    \cup {Invoke(j, a, voidR) : j \in 0 .. size - 1, a \in Args}

\* Instantiator::execute(arguments..., index): the set of its outcomes.
Instantiator_execute(size, table, voidR, arg, idx) ==
    IF idx < size
    THEN {Invoke(table[idx + 1], arg, voidR)}
    ELSE OutOfBoundsCall(size, voidR)

\* doer<Ndx>, Ndx < Size - 1, after its default branch's call returned o:
\* the branch has no return statement.  With Return = void that is a plain
\* return; otherwise flowing off the end is undefined.  Seen with g++ 12:
\* at -O0 the callee's value is still in the return register; at -O2 the
\* default branch is deleted as unreachable, so the call behaves as case
\* Ndx, or control runs on into the next function, which runs a further
\* handler with whatever is in the argument register, and then faults.
MissingReturn(o, Ndx, size, voidR, arg) ==
    IF o.status = "crashed" THEN {o}
    ELSE IF voidR THEN {o}
    ELSE {[o EXCEPT !.ret = r] : r \in {o.ret, <<GarbageValue>>}}
         \cup {[o EXCEPT !.status = "crashed", !.ret = <<>>]}
         \cup {Outcome(Append(o.inv, <<j, a>>), "crashed", <<>>) :
                  j \in 0 .. size - 1, a \in Args}
         \cup {Invoke(Ndx, arg, voidR)}

\* SwitchInstantiator::doer<Ndx>(args..., index): both overloads.
RECURSIVE doer(_, _, _, _, _)
doer(Ndx, size, voidR, arg, idx) ==
    IF Ndx = size - 1
    THEN {Invoke(Ndx, arg, voidR)}
    ELSE IF idx = Ndx
         THEN {Invoke(Ndx, arg, voidR)}
         ELSE UNION {MissingReturn(o, Ndx, size, voidR, arg) :
                        o \in doer(Ndx + 1, size, voidR, arg, idx)}

\* SwitchInstantiator::execute(args..., index): return doer<0>(args..., index).
SwitchInstantiator_execute(size, voidR, arg, idx) ==
    doer(0, size, voidR, arg, idx)

\* What the caller sees of a call: whether one was made, and its outcome.
Call(o) == [called |-> TRUE, inv |-> o.inv, status |-> o.status, ret |-> o.ret]

NoCall == [called |-> FALSE, inv |-> <<>>, status |-> "none", ret |-> <<>>]

\* The handlers a call ran, as a set.
Handlers(c) == {c.inv[n][1] : n \in DOMAIN c.inv}

\* The variables of the other headers, where a specification does not use
\* them.
NoType == [name |-> "", args |-> <<>>, elems |-> <<>>]

IdleTypes == Ts = <<>> /\ Index = 0 /\ type = NoType /\ Internal = NoType

IdleIndices == N = 0 /\ count = 0 /\ indices = <<>> /\ pack = <<>> /\ alias = "unused"

IdleDemo ==
    /\ tradesSeen = 0 /\ unimplementedCalls = 0 /\ running = TRUE
    /\ tradeCalls = 0 /\ quoteCalls = 0 /\ otherCalls = 0 /\ outOfRangeCalls = 0

\* Size >= 1: with Size = 0 the std::size_t Size - 1 wraps, no doer<Ndx>
\* ends the chain, and SwitchInstantiator::execute cannot be instantiated.
Init ==
    /\ IdleTypes /\ IdleIndices /\ IdleDemo
    /\ Size \in 1 .. MaxSize
    /\ voidReturn \in BOOLEAN
    /\ built = FALSE
    /\ jumpTable = <<>>
    /\ firstTable = <<>>
    /\ index = 0
    /\ arguments = 0
    /\ arr = NoCall
    /\ sw = NoCall

\* The constexpr static jumpTable of Instantiator::execute is initialised,
\* once, when execute is instantiated.  firstTable keeps the table as first
\* built.
Instantiate ==
    /\ ~built
    /\ built' = TRUE
    /\ jumpTable' = makeJumpTable(make_index_sequence(Size))
    /\ firstTable' = makeJumpTable(make_index_sequence(Size))
    /\ UNCHANGED <<Size, voidReturn, index, arguments, arr, sw>>
    /\ UNCHANGED <<typeVars, indexVars, demoVars>>

\* The caller takes up new arguments (as the demo's jumpTable(data, index),
\* whose int index converts to std::size_t); what it saw of the calls with
\* the previous ones is dropped.
Caller ==
    /\ \E i \in IntIndices, a \in Args :
         /\ index' = ToSizeT(i)
         /\ arguments' = a
    /\ arr' = NoCall
    /\ sw' = NoCall
    /\ UNCHANGED <<Size, voidReturn, built, jumpTable, firstTable>>
    /\ UNCHANGED <<typeVars, indexVars, demoVars>>

\* A table rebuilt by the call, one entry further on.
TableAfterCall_Rotated(table) ==
    [n \in DOMAIN table |-> table[(n % Len(table)) + 1]]

\* The table after a call of Instantiator::execute: it is a constexpr
\* object, which the call reads and nothing writes.
TableAfterCall(table) == table

\* A call of Instantiator::execute(arguments, index).
InstantiatorCall ==
    /\ built
    /\ \E o \in Instantiator_execute(Size, jumpTable, voidReturn, arguments, index) :
         arr' = Call(o)
    /\ jumpTable' = TableAfterCall(jumpTable)
    /\ UNCHANGED <<Size, voidReturn, built, firstTable, index, arguments, sw>>
    /\ UNCHANGED <<typeVars, indexVars, demoVars>>

\* A call of SwitchInstantiator::execute(arguments, index).
SwitchInstantiatorCall ==
    /\ \E o \in SwitchInstantiator_execute(Size, voidReturn, arguments, index) :
         sw' = Call(o)
    /\ UNCHANGED <<Size, voidReturn, built, jumpTable, firstTable, index, arguments, arr>>
    /\ UNCHANGED <<typeVars, indexVars, demoVars>>

Next ==
    \/ Instantiate
    \/ Caller
    \/ InstantiatorCall
    \/ SwitchInstantiatorCall

Spec == Init /\ [][Next]_vars

(***************************************************************************)
(* Claims about Instantiator and SwitchInstantiator, under Spec.           *)
(***************************************************************************)

\* C1: for every index in [0, Size), a call of Instantiator::execute and a
\* call of SwitchInstantiator::execute invoke UserTemplate<index>::execute
\* exactly once, with the caller's arguments, and no other handler.
C1_InvokesExactlyTheHandlerAtIndex ==
    index < Size =>
        /\ arr.called => arr.inv = << <<index, arguments>> >>
        /\ sw.called => sw.inv = << <<index, arguments>> >>

\* C2: for every index outside [0, Size), execute of either strategy raises
\* OutOfRangeError and invokes no handler.
C2_OutOfRangeRaisesAndInvokesNothing ==
    index >= Size =>
        /\ arr.called => (arr.status = "OutOfRangeError" /\ arr.inv = <<>>)
        /\ sw.called => (sw.status = "OutOfRangeError" /\ sw.inv = <<>>)

\* C3: for every index in [0, Size) and a non-void Return, execute of either
\* strategy returns exactly the value UserTemplate<index>::execute returned.
C3_ReturnsTheHandlersValue ==
    (index < Size /\ ~voidReturn) =>
        /\ arr.called =>
             (arr.status = "returned" /\ arr.ret = <<UserTemplate(index, arguments)>>)
        /\ sw.called =>
             (sw.status = "returned" /\ sw.ret = <<UserTemplate(index, arguments)>>)

\* C4: the jump table built for Size has exactly Size entries, and entry k
\* is UserTemplate<k>::execute for every k in [0, Size).
C4_JumpTableHoldsOneHandlerPerIndex ==
    built =>
        /\ Len(jumpTable) = Size
        /\ \A k \in 0 .. Size - 1 : jumpTable[k + 1] = k

C4_Witness == built /\ Size > 1 /\ arr.called /\ index = Size - 1

\* C5: once built, the table stays built and is never modified: after any
\* calls of execute, with any indices, it is the table as first built, and a
\* call with an in-range index runs the handler the first table holds there.
C5_TableIsWriteOnce ==
    /\ [](built =>
            /\ jumpTable = firstTable
            /\ (arr.called /\ index < Size) =>
                  Handlers(arr) = {firstTable[index + 1]})
    /\ [][built => (built' /\ jumpTable' = jumpTable)]_vars

C5_Witness ==
    built /\ arr.called /\ sw.called /\ index >= Size /\ jumpTable = firstTable

\* C7: for the same index and arguments, Instantiator::execute and
\* SwitchInstantiator::execute invoke the same handlers with the same
\* arguments and end the same way with the same result.
C7_StrategiesAreEquivalent ==
    (arr.called /\ sw.called) =>
        /\ arr.inv = sw.inv
        /\ arr.status = sw.status
        /\ arr.ret = sw.ret

(***************************************************************************)
(* TypeAtIndex.h, PackIndexer.h                                            *)
(***************************************************************************)
\* Type lists have 1 .. MaxLen types.
MaxLen == 3

\* A type: its name, its non-type template arguments, its type arguments.
Atom(n) == [name |-> n, args |-> <<>>, elems |-> <<>>]

\* Pack<Ts...>, as TypeAtIndex.h matches it in its partial specialisation.
Pack(types) == [name |-> "Pack", args |-> <<>>, elems |-> types]

\* An instantiation the compiler rejects.
IllFormed == Atom("<ill-formed>")

\* Executor<T>, for the template template parameter of PackIndexer.
Executor(T) == [name |-> "Executor", args |-> <<>>, elems |-> <<T>>]

\* A lookup that counts the head twice.
RECURSIVE TypeAtIndexByRemaining_OffByOne(_, _)
TypeAtIndexByRemaining_OffByOne(Remaining, types) ==
    IF types = <<>> THEN IllFormed
    ELSE IF Remaining <= 1 THEN Head(types)
    ELSE TypeAtIndexByRemaining_OffByOne(Remaining - 1, Tail(types))

\* detail::TypeAtIndexByRemaining<Remaining, Head, Tail...>::type.  The
\* primary template needs a Head: with no type left it is ill-formed.
RECURSIVE TypeAtIndexByRemaining(_, _)
TypeAtIndexByRemaining(Remaining, types) ==
    IF types = <<>> THEN IllFormed
    ELSE IF Remaining = 0 THEN Head(types)
    ELSE TypeAtIndexByRemaining(Remaining - 1, Tail(types))

\* TypeAtIndex<Index, Ts...>::type: the partial specialisation for a list
\* that is one Pack<Ts...>, the primary template for every other list.
RECURSIVE TypeAtIndex(_, _)
TypeAtIndex(I, types) ==
    IF Len(types) = 1 /\ types[1].name = "Pack"
    THEN TypeAtIndex(I, types[1].elems)
    ELSE TypeAtIndexByRemaining(I, types)

\* TypeAtIndex_t<Index, Ts...>.
TypeAtIndex_t(I, types) == TypeAtIndex(I, types)

\* PackIndexer<Executor, TypeArray...>::Internal<Index>.
PackIndexer_Internal(I, TypeArray) == Executor(TypeAtIndex_t(I, TypeArray))

\* The types of test/compile_time.cpp, and packs of them: empty, of one and
\* two types, and a pack that holds a pack.
TypeUniverse ==
    {Atom("char"), Atom("long"), Atom("int"),
     Pack(<<>>), Pack(<<Atom("long")>>), Pack(<<Atom("char"), Atom("long")>>),
     Pack(<<Pack(<<Atom("int"), Atom("char")>>)>>)}

TypeLists == UNION {[1 .. n -> TypeUniverse] : n \in 1 .. MaxLen}

IdleDispatch ==
    /\ Size = 1 /\ voidReturn = TRUE /\ built = FALSE
    /\ jumpTable = <<>> /\ firstTable = <<>>
    /\ index = 0 /\ arguments = 0 /\ arr = NoCall /\ sw = NoCall

InitTypes ==
    /\ IdleDispatch /\ IdleIndices /\ IdleDemo
    /\ Ts \in TypeLists
    /\ Index \in 0 .. MaxLen
    /\ type = NoType
    /\ Internal = NoType

\* The program names TypeAtIndex_t<Index, Ts...>.
UseTypeAtIndex_t ==
    /\ type = NoType
    /\ type' = TypeAtIndex_t(Index, Ts)
    /\ UNCHANGED <<Ts, Index, Internal>>
    /\ UNCHANGED <<dispatchVars, indexVars, demoVars>>

\* The program names PackIndexer<Executor, Ts...>::Internal<Index>.
UsePackIndexer ==
    /\ Internal = NoType
    /\ Internal' = PackIndexer_Internal(Index, Ts)
    /\ UNCHANGED <<Ts, Index, type>>
    /\ UNCHANGED <<dispatchVars, indexVars, demoVars>>

NextTypes ==
    \/ UseTypeAtIndex_t
    \/ UsePackIndexer

SpecTypes == InitTypes /\ [][NextTypes]_vars

\* The list a lookup in Ts... walks: Ts... itself, unless it is one
\* Pack<Us...>, which is looked up as Us... (and so on).
RECURSIVE C6_ListLookedUp(_)
C6_ListLookedUp(types) ==
    IF Len(types) = 1 /\ types[1].name = "Pack"
    THEN C6_ListLookedUp(types[1].elems)
    ELSE types

\* C6 as claimed: for every list Ts... of n >= 1 types and Index < n,
\* TypeAtIndex_t<Index, Ts...> is the type at position Index of Ts..., and
\* PackIndexer<Executor, Ts...>::Internal<Index> is Executor of that type.
C6_TypeAtPositionOfTheList ==
    Index < Len(Ts) =>
        /\ type # NoType => type = Ts[Index + 1]
        /\ Internal # NoType => Internal = Executor(Ts[Index + 1])

\* C6 as amended: the same of every list that is not one Pack<...>; a list
\* that is one Pack<Us...> is looked up as Us..., so for Index below the
\* length of Us... the result is the type at position Index of Us....
C6_TypeAtPositionOfTheListLookedUp ==
    LET Us == C6_ListLookedUp(Ts) IN
    Index < Len(Us) =>
        /\ type # NoType => type = Us[Index + 1]
        /\ Internal # NoType => Internal = Executor(Us[Index + 1])

C6_Witness ==
    /\ Len(Ts) = 1 /\ Ts[1] = Pack(<<Atom("char"), Atom("long")>>) /\ Index = 1
    /\ type = Atom("long")
    /\ Internal = Executor(Atom("long"))

(***************************************************************************)
(* Indices.h, IndexPack.h                                                  *)
(***************************************************************************)
\* The count asked for ranges over 0 .. MaxCount.
MaxCount == 13

\* IndexPack<T, indices...>::arity: sizeof...(indices).
arity(p) == Len(p)

InitIndices ==
    /\ IdleDispatch /\ IdleTypes /\ IdleDemo
    /\ N \in 0 .. MaxCount
    /\ count = N
    /\ indices = <<>>
    /\ pack = <<>>
    /\ alias = "unused"

\* Indices_impl<count, indices...>, count > 0:
\* type = Indices_impl<count - 1, count, indices...>::type.
Indices_impl ==
    /\ alias = "unused"
    /\ pack = <<>>
    /\ count > 0
    /\ count' = count - 1
    /\ indices' = <<count>> \o indices
    /\ UNCHANGED <<N, pack, alias>>
    /\ UNCHANGED <<dispatchVars, typeVars, demoVars>>

\* Indices_impl<0, indices...>: type = IndexPack<unsigned long, 0, indices...>.
Indices_impl_0 ==
    /\ alias = "unused"
    /\ pack = <<>>
    /\ count = 0
    /\ pack' = << <<0>> \o indices >>
    /\ UNCHANGED <<N, count, indices, alias>>
    /\ UNCHANGED <<dispatchVars, typeVars, demoVars>>

\* Indices<count> = Indices_impl<unsigned long, count>::type: the first
\* argument of Indices_impl is a value, and the alias gives it a type, so
\* the alias names no type.
Indices ==
    /\ alias = "unused"
    /\ count = N
    /\ pack = <<>>
    /\ alias' = "ill-formed"
    /\ UNCHANGED <<N, count, indices, pack>>
    /\ UNCHANGED <<dispatchVars, typeVars, demoVars>>

NextIndices ==
    \/ Indices_impl
    \/ Indices_impl_0
    \/ Indices

SpecIndices == InitIndices /\ [][NextIndices]_vars

\* C9: for every count N >= 0 the pack generated for N is
\* IndexPack<unsigned long, 0, 1, ..., N-1>: N indices, zero-based,
\* ascending, none repeated, N itself not among them; N = 0 gives the empty
\* pack.
C9_PackIsZeroToNMinusOne ==
    pack # <<>> =>
        /\ arity(pack[1]) = N
        /\ pack[1] = [k \in 1 .. N |-> k - 1]

(***************************************************************************)
(* test/instantiator_demo.cpp                                              *)
(***************************************************************************)
\* Width of unsigned in the model (32 on the usual targets): tradesSeen
\* counts modulo 2^UnsignedBits.
UnsignedBits == 2

UnsignedModulus == 2 ^ UnsignedBits

\* Calls of jumpTable in a run: enough for tradesSeen to wrap.
MaxCalls == UnsignedModulus + 1

\* The Size the demo gives Instantiator.
MessageTypeCount == 13

\* Quote<TopOfTheBook, S, LP>.
Quote(TopOfTheBook, S, LP) ==
    [name |-> "Quote", args |-> <<TopOfTheBook, S, LP>>, elems |-> <<>>]

MessageTypeArray ==
    Pack(<<Quote("false", "BID", "OUTRIGHT"),
           Quote("false", "BID", "IMPLIED"),
           Quote("false", "ASK", "OUTRIGHT"),
           Quote("false", "ASK", "IMPLIED"),
           Quote("true", "BID", "OUTRIGHT"),
           Quote("true", "BID", "IMPLIED"),
           Quote("true", "ASK", "OUTRIGHT"),
           Quote("true", "ASK", "IMPLIED"),
           Atom("Trade"),
           Atom("void *"),
           Atom("void *"),
           Atom("void *"),
           Atom("Uptick")>>)

\* The program's state the handlers touch.
DemoState(seen, unimplemented) ==
    [tradesSeen |-> seen, unimplementedCalls |-> unimplemented]

\* Overloads that count an Uptick as a Trade.
processMarketMessage_UptickCounted(Message, st) ==
    IF Message.name = "Quote"
    THEN [st EXCEPT !.unimplementedCalls = @ + 1]
    ELSE IF Message.name \in {"Trade", "Uptick"}
    THEN [st EXCEPT !.tradesSeen = (@ + 1) % UnsignedModulus]
    ELSE st

\* processMarketMessage(Message &), by overload resolution: the template
\* over Quote<TopOrNot, QS, LP> calls unimplemented(); the function for
\* Trade increments the unsigned tradesSeen; the template over any T does
\* nothing.
processMarketMessage(Message, st) ==
    IF Message.name = "Quote"
    THEN [st EXCEPT !.unimplementedCalls = @ + 1]
    ELSE IF Message.name = "Trade"
    THEN [st EXCEPT !.tradesSeen = (@ + 1) % UnsignedModulus]
    ELSE st

\* The Message of each handler of the demo's table: handler k is
\* PackIndexer<ExchangeMessageProcessor, MessageTypeArray>::Internal<k>,
\* that is ExchangeMessageProcessor<Message>.
MessageOfHandler ==
    [k \in 0 .. MessageTypeCount - 1 |->
        PackIndexer_Internal(k, <<MessageTypeArray>>).elems[1]]

\* ExchangeMessageProcessor<Message>::execute(arg), for handler k:
\* processMarketMessage(*static_cast<Message *>(arg)).
ExchangeMessageProcessor_execute(k, st) ==
    processMarketMessage(MessageOfHandler[k], st)

\* The handlers of one call, run in order.
RECURSIVE RunHandlers(_, _)
RunHandlers(inv, st) ==
    IF inv = <<>> THEN st
    ELSE RunHandlers(Tail(inv), ExchangeMessageProcessor_execute(Head(inv)[1], st))

\* The int indices the demo's caller passes: -1, the range, one above.
DemoIndices == (0 - 1) .. MessageTypeCount

InitDemo ==
    /\ IdleTypes /\ IdleIndices
    /\ Size = MessageTypeCount
    /\ voidReturn = TRUE
    /\ built = TRUE
    /\ jumpTable = makeJumpTable(make_index_sequence(MessageTypeCount))
    /\ firstTable = jumpTable
    /\ index = 0 /\ arguments = 0 /\ arr = NoCall /\ sw = NoCall
    /\ tradesSeen = 0
    /\ unimplementedCalls = 0
    /\ running = TRUE
    /\ tradeCalls = 0 /\ quoteCalls = 0 /\ otherCalls = 0 /\ outOfRangeCalls = 0

\* jumpTable(data, index): Instantiator<Internal, 13, void(void *)>::execute
\* with the int index converted to std::size_t.  The four counters keep how
\* many calls had the index of the Trade entry (8), of a Quote entry (0..7),
\* of a void * or Uptick entry (9..12), and an index out of range.
jumpTable_demo ==
    /\ running
    /\ tradeCalls + quoteCalls + otherCalls + outOfRangeCalls < MaxCalls
    /\ \E i \in DemoIndices, data \in Args :
         LET idx == ToSizeT(i) IN
         \E o \in Instantiator_execute(Size, jumpTable, voidReturn, data, idx) :
            LET st == RunHandlers(o.inv, DemoState(tradesSeen, unimplementedCalls)) IN
            /\ tradesSeen' = st.tradesSeen
            /\ unimplementedCalls' = st.unimplementedCalls
            /\ running' = (o.status = "returned")
            /\ tradeCalls' = tradeCalls + (IF idx = 8 THEN 1 ELSE 0)
            /\ quoteCalls' = quoteCalls + (IF idx < 8 THEN 1 ELSE 0)
            /\ otherCalls' = otherCalls + (IF idx \in 9 .. 12 THEN 1 ELSE 0)
            /\ outOfRangeCalls' = outOfRangeCalls + (IF idx >= Size THEN 1 ELSE 0)
    /\ UNCHANGED <<dispatchVars, typeVars, indexVars>>

NextDemo == jumpTable_demo

SpecDemo == InitDemo /\ [][NextDemo]_vars

\* C10 as claimed: after any calls with indices all in 8..12, tradesSeen is
\* the number of calls with index 8 and unimplemented() was not reached; a
\* call with index 9..12 leaves tradesSeen unchanged; unimplemented() is
\* reached exactly by the calls with index 0..7.
C10_TradesSeenCountsTheCallsAtIndex8 ==
    outOfRangeCalls = 0 =>
        /\ quoteCalls = 0 => (tradesSeen = tradeCalls /\ unimplementedCalls = 0)
        /\ unimplementedCalls = quoteCalls

\* C10 as amended: tradesSeen is the number of calls with index 8 modulo
\* 2^w, w the width of unsigned; the rest as claimed.
C10_TradesSeenCountsModuloTheWidth ==
    /\ [](outOfRangeCalls = 0 =>
            /\ tradesSeen = tradeCalls % UnsignedModulus
            /\ unimplementedCalls = quoteCalls)
    /\ [][(outOfRangeCalls' = outOfRangeCalls /\ tradeCalls' = tradeCalls) =>
             tradesSeen' = tradesSeen]_vars

C10_Witness ==
    /\ outOfRangeCalls = 0 /\ quoteCalls = 0
    /\ otherCalls > 0
    /\ tradeCalls = UnsignedModulus
    /\ tradesSeen = 0

====
